---- MODULE Spec2Model ----
(***************************************************************************)
(* Model of GroverAccelerator (src/cpp/grover_accelerator.cpp): the serial *)
(* and parallel pattern matchers, the position encoder, the oracle builder *)
(* and the measurement statistics analyzer.                                *)
(*                                                                         *)
(* Strings are sequences of one-character strings.  Offsets are 0-based as *)
(* in the C++ code; TLA+ sequences are 1-based, so sequence[i] of the code *)
(* is sequence[i + 1] here.                                                *)
(***************************************************************************)
EXTENDS Integers, Sequences, FiniteSets, TLC

VARIABLES op, pc, outcome,
          sequence, pattern, num_threads,
          chunk_size, t, collected, workers, all_matches, ret,
          num_candidates, n_qubits, encodings,
          matches, database_size, diagonal,
          counts, total_shots, stats

vars == <<op, pc, outcome, sequence, pattern, num_threads,
          chunk_size, t, collected, workers, all_matches, ret,
          num_candidates, n_qubits, encodings,
          matches, database_size, diagonal,
          counts, total_shots, stats>>

matcherVars == <<sequence, pattern, num_threads, chunk_size, t, collected,
                 workers, all_matches, ret>>
encoderVars == <<num_candidates, n_qubits, encodings>>
oracleVars  == <<matches, database_size, diagonal>>
statsVars   == <<counts, total_shots, stats>>

----------------------------------------------------------------------------
(* Bounds of the model *)

MaxSeqLen == 4
MaxPatLen == 2
MaxCand == 8
MaxQubits == 3
MaxDb == 3
MaxMatches == 3
MaxPos == 4
MaxCount == 3
MaxShots == 3

(* Width of int in bits: a shift count >= IntBits is undefined *)
IntBits == 32

Alphabet == {"A", "T"}
(* worker counts of the testable property, plus zero and a negative count *)
ThreadCounts == {1, 2, 3, 4, 8}
ThreadInputs == ThreadCounts \cup {0, -1}
Labels == {"000", "111"}

BoundedSeq(S, n) == UNION {[1..m -> S] : m \in 0..n}

----------------------------------------------------------------------------
(* Sequence Matcher - serial *)

(* inner comparison loop of find_pattern_matches, with its break *)
RECURSIVE MatchFrom(_, _, _, _)
MatchFrom(seq, pat, i, j) ==
    IF j >= Len(pat) THEN TRUE
    ELSE IF seq[i + j + 1] # pat[j + 1] THEN FALSE
    ELSE MatchFrom(seq, pat, i, j + 1)

(* mutant: the comparison stops one character short *)
MatchAtShort(seq, pat, i) ==
    \A j \in 0..(Len(pat) - 2) : seq[i + j + 1] = pat[j + 1]

MatchAt(seq, pat, i) == MatchFrom(seq, pat, i, 0)

(* outer loop: for (i = 0; i <= sequence_len - pattern_len; ++i) *)
RECURSIVE SerialScan(_, _, _, _)
SerialScan(seq, pat, i, acc) ==
    IF i > Len(seq) - Len(pat) THEN acc
    ELSE SerialScan(seq, pat, i + 1,
                    IF MatchAt(seq, pat, i) THEN Append(acc, i) ELSE acc)

(* mutant: the early return forgets the empty pattern *)
IsDegenerateNoEmptyPattern(seq, pat) ==
    Len(seq) = 0 \/ Len(pat) > Len(seq)

IsDegenerate(seq, pat) ==
    Len(pat) = 0 \/ Len(seq) = 0 \/ Len(pat) > Len(seq)

find_pattern_matches(seq, pat) ==
    IF Len(pat) = 0 \/ Len(seq) = 0 \/ Len(pat) > Len(seq) THEN <<>>
    ELSE SerialScan(seq, pat, 0, <<>>)

----------------------------------------------------------------------------
(* Sequence Matcher - parallel *)

SearchLen(seq, pat) == Len(seq) - Len(pat) + 1

(* search_len / num_threads in size_t arithmetic, num_threads # 0.  A      *)
(* negative int converts to 2^64 + num_threads, which exceeds the length   *)
(* of any string (max_size < 2^63), so the quotient is 0.                  *)
ChunkSize(search_len, n) ==
    IF n > 0 THEN search_len \div n ELSE 0

ChunkStart(w, csize) == w * csize

(* mutant: the last chunk does not absorb the remainder *)
ChunkEndNoRemainder(w, n, search_len, csize) == (w + 1) * csize

ChunkEnd(w, n, search_len, csize) ==
    IF w = n - 1 THEN search_len ELSE (w + 1) * csize

(* comparison loop of the worker lambda *)
RECURSIVE WorkerMatchFrom(_, _, _, _)
WorkerMatchFrom(seq, pat, i, j) ==
    IF j >= Len(pat) THEN TRUE
    ELSE IF seq[i + j + 1] # pat[j + 1] THEN FALSE
    ELSE WorkerMatchFrom(seq, pat, i, j + 1)

(* mutant: a worker skips the offset after a match (no overlaps) *)
WorkerNextAfterSkip(i, matched) == IF matched THEN i + 2 ELSE i + 1

WorkerNext(i, matched) == i + 1

(* mutant: future.get() does not wait for the worker *)
FutureReadyNoWait(w) == TRUE

(* future.get() returns once the task has returned *)
FutureReady(w) == w.status = "done"

NoWorker == [status |-> "unstarted", start |-> 0, end |-> 0, i |-> 0,
             local_matches |-> <<>>]

Less(a, b) == a < b

MatcherInit ==
    /\ op = "none" /\ pc = "start" /\ outcome = "none"
    /\ sequence \in BoundedSeq(Alphabet, MaxSeqLen)
    /\ pattern \in BoundedSeq(Alphabet, MaxPatLen)
    /\ num_threads \in ThreadInputs
    /\ chunk_size = 0 /\ t = 0 /\ collected = 0
    /\ workers = [w \in 0..(num_threads - 1) |-> NoWorker]
    /\ all_matches = <<>> /\ ret = <<>>

PureDefaults ==
    /\ num_candidates = 0 /\ n_qubits = 0 /\ encodings = <<>>
    /\ matches = <<>> /\ database_size = 0 /\ diagonal = <<>>
    /\ counts = [k \in {} |-> 0] /\ total_shots = 0
    /\ stats = [kind |-> "none"]

Init == MatcherInit /\ PureDefaults

(* find_pattern_matches(sequence, pattern) *)
CallSerial ==
    /\ pc = "start"
    /\ op' = "serial"
    /\ ret' = find_pattern_matches(sequence, pattern)
    /\ pc' = "done" /\ outcome' = "returned"
    /\ UNCHANGED <<sequence, pattern, num_threads, chunk_size, t, collected,
                   workers, all_matches>>
    /\ UNCHANGED <<encoderVars, oracleVars, statsVars>>

(* find_pattern_matches_parallel: early return, then chunk_size *)
ParallelEnter ==
    /\ pc = "start"
    /\ op' = "parallel"
    /\ IF IsDegenerate(sequence, pattern)
       THEN /\ ret' = <<>> /\ pc' = "done" /\ outcome' = "returned"
            /\ UNCHANGED chunk_size
       ELSE IF num_threads = 0
       THEN (* size_t division by zero: undefined behaviour *)
            \/ /\ pc' = "done" /\ outcome' = "crashed"
               /\ UNCHANGED <<ret, chunk_size>>
            \/ /\ chunk_size' \in 0..SearchLen(sequence, pattern)
               /\ pc' = "launch"
               /\ UNCHANGED <<ret, outcome>>
       ELSE /\ chunk_size' = ChunkSize(SearchLen(sequence, pattern), num_threads)
            /\ pc' = "launch"
            /\ UNCHANGED <<ret, outcome>>
    /\ UNCHANGED <<sequence, pattern, num_threads, t, collected, workers,
                   all_matches>>
    /\ UNCHANGED <<encoderVars, oracleVars, statsVars>>

(* one iteration of the launch loop: std::async(std::launch::async, ...) *)
Launch ==
    /\ pc = "launch" /\ t < num_threads
    /\ workers' = [workers EXCEPT ![t] =
          [status |-> "running",
           start |-> ChunkStart(t, chunk_size),
           end |-> ChunkEnd(t, num_threads, SearchLen(sequence, pattern), chunk_size),
           i |-> ChunkStart(t, chunk_size),
           local_matches |-> <<>>]]
    /\ t' = t + 1
    /\ UNCHANGED <<op, pc, outcome, sequence, pattern, num_threads,
                   chunk_size, collected, all_matches, ret>>
    /\ UNCHANGED <<encoderVars, oracleVars, statsVars>>

(* the launch loop ends *)
LaunchDone ==
    /\ pc = "launch" /\ ~(t < num_threads)
    /\ pc' = "collect"
    /\ UNCHANGED <<op, outcome, matcherVars, encoderVars, oracleVars, statsVars>>

(* one iteration of a worker's scan loop *)
WorkerStep(w) ==
    /\ workers[w].status = "running"
    /\ workers[w].i < workers[w].end
    /\ LET matched == WorkerMatchFrom(sequence, pattern, workers[w].i, 0)
       IN workers' = [workers EXCEPT
             ![w].local_matches = IF matched THEN Append(@, workers[w].i) ELSE @,
             ![w].i = WorkerNext(@, matched)]
    /\ UNCHANGED <<op, pc, outcome, sequence, pattern, num_threads,
                   chunk_size, t, collected, all_matches, ret>>
    /\ UNCHANGED <<encoderVars, oracleVars, statsVars>>

(* a worker's loop ends and the task returns local_matches *)
WorkerReturn(w) ==
    /\ workers[w].status = "running"
    /\ ~(workers[w].i < workers[w].end)
    /\ workers' = [workers EXCEPT ![w].status = "done"]
    /\ UNCHANGED <<op, pc, outcome, sequence, pattern, num_threads,
                   chunk_size, t, collected, all_matches, ret>>
    /\ UNCHANGED <<encoderVars, oracleVars, statsVars>>

(* one iteration of the collect loop: future.get() and insert *)
Collect ==
    /\ pc = "collect" /\ collected < t
    /\ FutureReady(workers[collected])
    /\ all_matches' = all_matches \o workers[collected].local_matches
    /\ collected' = collected + 1
    /\ UNCHANGED <<op, pc, outcome, sequence, pattern, num_threads,
                   chunk_size, t, workers, ret>>
    /\ UNCHANGED <<encoderVars, oracleVars, statsVars>>

(* std::sort(all_matches) and return *)
SortAndReturn ==
    /\ pc = "collect" /\ ~(collected < t)
    /\ ret' = SortSeq(all_matches, Less)
    /\ pc' = "done" /\ outcome' = "returned"
    /\ UNCHANGED <<op, sequence, pattern, num_threads, chunk_size, t,
                   collected, workers, all_matches>>
    /\ UNCHANGED <<encoderVars, oracleVars, statsVars>>

Next ==
    \/ CallSerial
    \/ ParallelEnter
    \/ Launch
    \/ LaunchDone
    \/ \E w \in DOMAIN workers : WorkerStep(w)
    \/ \E w \in DOMAIN workers : WorkerReturn(w)
    \/ Collect
    \/ SortAndReturn

Spec == Init /\ [][Next]_vars

----------------------------------------------------------------------------
(* Position Encoder *)

QubitInputs == 0..MaxQubits \cup {IntBits + 1}

(* (pos >> bit) & 1 on a non-negative int.  A shift count >= IntBits is    *)
(* undefined: the bit is whatever the build produces, ub[<<pos, bit>>].    *)
(* pos < 2^(IntBits-1), so a shift by IntBits-1 gives 0.                   *)
ShiftBit(pos, bit, ub) ==
    IF bit >= IntBits THEN ub[<<pos, bit>>]
    ELSE IF bit = IntBits - 1 THEN 0
    ELSE (pos \div (2 ^ bit)) % 2

(* mutant: the bits are emitted least-significant first *)
RECURSIVE EncodeBitsLsbFirst(_, _, _, _)
EncodeBitsLsbFirst(pos, bit, ub, binary) ==
    IF bit < 0 THEN binary
    ELSE EncodeBitsLsbFirst(pos, bit - 1, ub,
             <<IF ShiftBit(pos, bit, ub) = 1 THEN "1" ELSE "0">> \o binary)

(* for (bit = n_qubits - 1; bit >= 0; --bit) binary += ... *)
RECURSIVE EncodeBits(_, _, _, _)
EncodeBits(pos, bit, ub, binary) ==
    IF bit < 0 THEN binary
    ELSE EncodeBits(pos, bit - 1, ub,
             Append(binary, IF ShiftBit(pos, bit, ub) = 1 THEN "1" ELSE "0"))

RECURSIVE EncodeLoop(_, _, _, _, _)
EncodeLoop(pos, nc, nq, ub, acc) ==
    IF ~(pos < nc) THEN acc
    ELSE EncodeLoop(pos + 1, nc, nq, ub,
                    Append(acc, EncodeBits(pos, nq - 1, ub, <<>>)))

encode_positions(nc, nq, ub) == EncodeLoop(0, nc, nq, ub, <<>>)

MatcherDefaults ==
    /\ sequence = <<>> /\ pattern = <<>> /\ num_threads = 0
    /\ chunk_size = 0 /\ t = 0 /\ collected = 0
    /\ workers = [w \in {} |-> NoWorker]
    /\ all_matches = <<>> /\ ret = <<>>

NoCounts == [k \in {} |-> 0]
NoReport == [kind |-> "none"]

InitEncode ==
    /\ op = "encode" /\ pc = "start" /\ outcome = "none"
    /\ MatcherDefaults
    /\ num_candidates \in 0..MaxCand
    /\ n_qubits \in QubitInputs
    /\ encodings = <<>>
    /\ matches = <<>> /\ database_size = 0 /\ diagonal = <<>>
    /\ counts = NoCounts /\ total_shots = 0 /\ stats = NoReport

Encode ==
    /\ op = "encode" /\ pc = "start"
    /\ \E ub \in [(0..(num_candidates - 1)) \X (IntBits..(n_qubits - 1)) -> {0, 1}] :
          encodings' = encode_positions(num_candidates, n_qubits, ub)
    /\ pc' = "done" /\ outcome' = "returned"
    /\ UNCHANGED <<op, num_candidates, n_qubits>>
    /\ UNCHANGED <<matcherVars, oracleVars, statsVars>>

NextEncode == Encode

SpecEncode == InitEncode /\ [][NextEncode]_vars

----------------------------------------------------------------------------
(* Oracle Builder *)

(* mutant: the range check is off by one *)
InDatabaseOffByOne(match, size) == match + 1 < size

(* if (match < database_size) *)
InDatabase(match, size) == match < size

(* for (int match : matches) ... diagonal[match] = -1 *)
RECURSIVE MarkMatches(_, _, _, _)
MarkMatches(ms, k, size, diag) ==
    IF k > Len(ms) THEN diag
    ELSE MarkMatches(ms, k + 1, size,
             IF InDatabase(ms[k], size)
             THEN [diag EXCEPT ![ms[k]] = -1]
             ELSE diag)

build_oracle_diagonal(ms, size) ==
    MarkMatches(ms, 1, size, [m \in 0..(size - 1) |-> 1])

InitOracle ==
    /\ op = "oracle" /\ pc = "start" /\ outcome = "none"
    /\ MatcherDefaults
    /\ num_candidates = 0 /\ n_qubits = 0 /\ encodings = <<>>
    /\ matches \in BoundedSeq(0..MaxPos, MaxMatches)
    /\ database_size \in 0..MaxDb
    /\ diagonal = <<>>
    /\ counts = NoCounts /\ total_shots = 0 /\ stats = NoReport

BuildOracle ==
    /\ op = "oracle" /\ pc = "start"
    /\ diagonal' = build_oracle_diagonal(matches, database_size)
    /\ pc' = "done" /\ outcome' = "returned"
    /\ UNCHANGED <<op, matches, database_size>>
    /\ UNCHANGED <<matcherVars, encoderVars, statsVars>>

NextOracle == BuildOracle

SpecOracle == InitOracle /\ [][NextOracle]_vars

----------------------------------------------------------------------------
(* Statistics Analyzer *)

(* static_cast<double>(a) / b for a >= 0: IEEE division never traps *)
DoubleDiv(a, b) ==
    IF b # 0 THEN [kind |-> "finite", num |-> a, den |-> b]
    ELSE IF a = 0 THEN [kind |-> "nan", num |-> 0, den |-> 0]
    ELSE [kind |-> "inf", num |-> 0, den |-> 0]

(* the loop over counts: total_match_shots and max_count *)
RECURSIVE SumCounts(_, _)
SumCounts(cs, keys) ==
    IF keys = {} THEN 0
    ELSE LET k == CHOOSE x \in keys : TRUE
         IN cs[k] + SumCounts(cs, keys \ {k})

RECURSIVE MaxOfCounts(_, _, _)
MaxOfCounts(cs, keys, max_count) ==
    IF keys = {} THEN max_count
    ELSE LET k == CHOOSE x \in keys : TRUE
         IN MaxOfCounts(cs, keys \ {k},
                        IF cs[k] > max_count THEN cs[k] ELSE max_count)

(* entropy -= p * log2(p) over the states with count > 0, kept symbolic as *)
(* the probabilities summed over.  With total_shots = 0 every p is +Inf    *)
(* and the sum is -Inf.                                                    *)
calculate_shannon_entropy(cs, shots) ==
    LET pos == {k \in DOMAIN cs : cs[k] > 0}
    IN IF pos = {} THEN [kind |-> "finite", terms |-> [k \in {} |-> 0]]
       ELSE IF shots = 0 THEN [kind |-> "neg_inf", terms |-> [k \in {} |-> 0]]
       ELSE [kind |-> "finite",
             terms |-> [k \in pos |-> DoubleDiv(cs[k], shots)]]

analyze_measurement_statistics(cs, shots) ==
    [kind |-> "report",
     success_probability |-> DoubleDiv(SumCounts(cs, DOMAIN cs), shots),
     max_amplitude |-> DoubleDiv(MaxOfCounts(cs, DOMAIN cs, 0), shots),
     entropy |-> calculate_shannon_entropy(cs, shots),
     num_unique_states |-> Cardinality(DOMAIN cs)]

InitStats ==
    /\ op = "stats" /\ pc = "start" /\ outcome = "none"
    /\ MatcherDefaults
    /\ num_candidates = 0 /\ n_qubits = 0 /\ encodings = <<>>
    /\ matches = <<>> /\ database_size = 0 /\ diagonal = <<>>
    /\ counts \in UNION {[K -> 0..MaxCount] : K \in SUBSET Labels}
    /\ total_shots \in 0..MaxShots
    /\ stats = NoReport

Analyze ==
    /\ op = "stats" /\ pc = "start"
    /\ stats' = analyze_measurement_statistics(counts, total_shots)
    /\ pc' = "done" /\ outcome' = "returned"
    /\ UNCHANGED <<op, counts, total_shots>>
    /\ UNCHANGED <<matcherVars, encoderVars, oracleVars>>

NextStats == Analyze

SpecStats == InitStats /\ [][NextStats]_vars

----------------------------------------------------------------------------
(* Properties *)

Range(s) == {s[k] : k \in DOMAIN s}

Degenerate == Len(pattern) = 0 \/ Len(sequence) = 0 \/ Len(pattern) > Len(sequence)

(* the occurrences of pattern in sequence, stated without the scan *)
Occurrences ==
    {i \in 0..(Len(sequence) - Len(pattern)) :
        SubSeq(sequence, i + 1, i + Len(pattern)) = pattern}

StrictlyAscending(s) == \A k \in 1..(Len(s) - 1) : s[k] < s[k + 1]

(* C1: for every sequence, pattern (degenerate ones included) and worker   *)
(* count in {1,2,3,4,8}, the parallel matcher returns the list the serial  *)
(* matcher returns, in every interleaving of the workers.                  *)
ParallelEqualsSerial ==
    (op = "parallel" /\ pc = "done" /\ num_threads \in ThreadCounts)
        => /\ outcome = "returned"
           /\ ret = find_pattern_matches(sequence, pattern)

ParallelEqualsSerialWitness ==
    /\ op = "parallel" /\ pc = "done" /\ num_threads = 3
    /\ Len(ret) >= 3
    /\ workers[0].local_matches # <<>> /\ workers[2].local_matches # <<>>

(* C2: on non-degenerate input with num_threads >= 1 the ranges handed to  *)
(* the workers are contiguous, pairwise disjoint and cover exactly the     *)
(* offsets 0..S-1; the last worker takes the remainder of S / num_threads; *)
(* every offset is tested by exactly one worker.                           *)
ChunksPartitionSearchSpace ==
    (op = "parallel" /\ pc \in {"collect", "done"} /\ num_threads >= 1
        /\ ~Degenerate)
        => LET S == Len(sequence) - Len(pattern) + 1
               k == num_threads
           IN /\ t = k
              /\ workers[0].start = 0
              /\ workers[k - 1].end = S
              /\ \A w \in 0..(k - 1) : workers[w].start <= workers[w].end
              /\ \A w \in 0..(k - 2) : workers[w].end = workers[w + 1].start
              /\ \A w \in 0..(k - 2) :
                    workers[w].end - workers[w].start = S \div k
              /\ workers[k - 1].end - workers[k - 1].start = (S \div k) + (S % k)
              /\ \A o \in 0..(S - 1) :
                    Cardinality({w \in 0..(k - 1) :
                        workers[w].start <= o /\ o < workers[w].end}) = 1
              /\ pc = "done" => \A w \in 0..(k - 1) : workers[w].i = workers[w].end

ChunksPartitionSearchSpaceWitness ==
    /\ op = "parallel" /\ pc = "done" /\ num_threads = 3
    /\ Len(sequence) - Len(pattern) + 1 = 4
    /\ workers[2].end - workers[2].start = 2

(* C3: for 0 < |pattern| <= |sequence| the serial matcher returns exactly  *)
(* the offsets where pattern occurs, strictly ascending, overlapping       *)
(* occurrences included ("AA" in "AAAA" gives [0,1,2]).                    *)
SerialFindsAllOccurrences ==
    (op = "serial" /\ pc = "done"
        /\ 0 < Len(pattern) /\ Len(pattern) <= Len(sequence))
        => /\ StrictlyAscending(ret)
           /\ Range(ret) = Occurrences

SerialFindsAllOccurrencesWitness ==
    /\ op = "serial" /\ pc = "done"
    /\ sequence = <<"A", "A", "A", "A">> /\ pattern = <<"A", "A">>
    /\ ret = <<0, 1, 2>>

(* C4: on a degenerate input (empty pattern, empty sequence, pattern       *)
(* longer than sequence) the parallel matcher returns the empty list as a  *)
(* normal value and launches no worker, for any num_threads.               *)
DegenerateBypassesWorkers ==
    (op = "parallel" /\ Degenerate)
        => /\ pc = "done" /\ outcome = "returned" /\ ret = <<>>
           /\ t = 0
           /\ \A w \in DOMAIN workers : workers[w].status = "unstarted"

DegenerateBypassesWorkersWitness ==
    /\ op = "parallel" /\ pc = "done" /\ num_threads = 8
    /\ pattern = <<>> /\ Len(sequence) = 2

(* C5: the parallel matcher returns only after every worker it launched    *)
(* has run its whole chunk and completed, and the returned list holds the  *)
(* results of all workers.                                                 *)
JoinBeforeReturn ==
    (op = "parallel" /\ pc = "done" /\ outcome = "returned")
        => /\ \A w \in DOMAIN workers : workers[w].status # "running"
           /\ \A w \in 0..(t - 1) :
                 /\ workers[w].status = "done"
                 /\ workers[w].i >= workers[w].end
                 /\ Range(workers[w].local_matches) \subseteq Range(ret)

JoinBeforeReturnWitness ==
    /\ op = "parallel" /\ pc = "done" /\ outcome = "returned"
    /\ num_threads = 2 /\ t = 2
    /\ workers[0].local_matches # <<>> /\ workers[1].local_matches # <<>>

(* C6: build_oracle_diagonal(matches, N) has length N, holds -1 at index m *)
(* exactly when m is in matches and m < N, +1 elsewhere; positions >= N    *)
(* are ignored.                                                            *)
OracleDiagonalMarksMatches ==
    (op = "oracle" /\ pc = "done")
        => /\ outcome = "returned"
           /\ DOMAIN diagonal = 0..(database_size - 1)
           /\ \A m \in 0..(database_size - 1) :
                 diagonal[m] = IF m \in Range(matches) THEN -1 ELSE 1
           /\ Cardinality({m \in DOMAIN diagonal : diagonal[m] = -1})
                 = Cardinality({m \in Range(matches) : m < database_size})

OracleDiagonalMarksMatchesWitness ==
    /\ op = "oracle" /\ pc = "done" /\ database_size = 2
    /\ \E k \in DOMAIN matches : matches[k] >= database_size
    /\ \E k \in DOMAIN matches : matches[k] = database_size - 1

(* C7: with total_shots = 0 the analyzer fails with an InvalidArgument     *)
(* error and produces no report (never NaN/Inf metrics).                   *)
ZeroShotsRejected ==
    (op = "stats" /\ pc = "done" /\ total_shots = 0)
        => /\ outcome = "invalid_argument"
           /\ stats = NoReport

(* the mathematical bit b of a non-negative i < 2^(IntBits-1) *)
BitOf(i, b) == IF b >= IntBits - 1 THEN 0 ELSE (i \div (2 ^ b)) % 2

(* binary -> int, most-significant bit first *)
RECURSIVE ParseBinary(_, _, _)
ParseBinary(str, k, acc) ==
    IF k > Len(str) THEN acc
    ELSE ParseBinary(str, k + 1, 2 * acc + (IF str[k] = "1" THEN 1 ELSE 0))

EncodingIsBinaryOfIndex ==
    /\ Len(encodings) = num_candidates
    /\ \A i \in 0..(num_candidates - 1) :
          /\ Len(encodings[i + 1]) = n_qubits
          /\ \A j \in 1..n_qubits :
                encodings[i + 1][j] =
                    IF BitOf(i, n_qubits - j) = 1 THEN "1" ELSE "0"
          /\ n_qubits < IntBits - 1 =>
                ParseBinary(encodings[i + 1], 1, 0) = i % (2 ^ n_qubits)

(* C8: for every num_candidates >= 0 and n_qubits >= 0 encode_positions    *)
(* returns num_candidates strings, the i-th being the n_qubits-character   *)
(* binary expansion, most-significant bit first, of i mod 2^n_qubits.      *)
EncodingAnyWidth ==
    (op = "encode" /\ pc = "done") => EncodingIsBinaryOfIndex

(* the same restricted to widths the int shift defines *)
EncodingWithinIntWidth ==
    (op = "encode" /\ pc = "done" /\ n_qubits <= IntBits)
        => EncodingIsBinaryOfIndex

(* C9: a call with num_threads < 1 on non-degenerate input behaves as a    *)
(* call with one worker: it returns normally the serial matcher's list.    *)
MinimumOneWorker ==
    (op = "parallel" /\ pc = "done" /\ num_threads < 1 /\ ~Degenerate)
        => /\ outcome = "returned"
           /\ ret = find_pattern_matches(sequence, pattern)

(* C10: for num_threads >= 1 every launched worker is given a non-empty    *)
(* range (start < end), also when num_threads exceeds the number of        *)
(* offsets.                                                                *)
NoEmptyChunkWork ==
    (op = "parallel" /\ num_threads >= 1)
        => \A w \in 0..(t - 1) : workers[w].start < workers[w].end

====
